---- MODULE Spec2Model ----
(***************************************************************************)
(* The bank-account reducer of src/App.js as a state machine.              *)
(*                                                                         *)
(* The state is the object held by useReducer; every step is one           *)
(* dispatch(action), which replaces the state by reducer(state, action).   *)
(* `actionType` remembers the type of the action dispatched last and       *)
(* `changed` whether that dispatch returned a state other than the one it  *)
(* was given, so that a property can say which operation produced a state. *)
(*                                                                         *)
(* JavaScript values are tagged records [k, n]:                            *)
(*   k = "num"    the number n                                             *)
(*   k = "nan"    the number NaN                                           *)
(*   k = "text"   numeric text, such as "250" (the text of the number n)   *)
(*   k = "empty"  the empty string ''                                      *)
(*   k = "bad"    text that is not a number, such as "abc"                 *)
(*   k = "undef"  undefined (an action that carries no amount)             *)
(* Amounts are whole numbers: decimal rounding is outside the model.       *)
(***************************************************************************)
EXTENDS Integers, FiniteSets, Sequences, TLC

VARIABLES state, actionType, changed

vars == <<state, actionType, changed>>

----------------------------------------------------------------------------
(* Bounds of the model *)

\* the staged numeric texts are -AmountUnit, AmountUnit and 2 * AmountUnit
\* (the amount zero is staged as the empty text)
AmountUnit == 250

\* a dispatch that would take |balance| above MaxBalance is not explored
MaxBalance == 1000

----------------------------------------------------------------------------
(* JavaScript values and the operators the reducer applies to them *)

Num(n) == [k |-> "num", n |-> n]

NaN == [k |-> "nan", n |-> 0]

Text(n) == [k |-> "text", n |-> n]

Empty == [k |-> "empty", n |-> 0]

Bad == [k |-> "bad", n |-> 0]

Undefined == [k |-> "undef", n |-> 0]

\* Number(v)
ToNumber(v) ==
    CASE v.k = "num" -> v
      [] v.k = "nan" -> NaN
      [] v.k = "text" -> Num(v.n)
      [] v.k = "empty" -> Num(0)
      [] v.k = "bad" -> NaN
      [] v.k = "undef" -> NaN

\* the truthiness of v, as || and && test it
Truthy(v) ==
    CASE v.k = "num" -> v.n # 0
      [] v.k = "nan" -> FALSE
      [] v.k = "text" -> TRUE
      [] v.k = "empty" -> FALSE
      [] v.k = "bad" -> TRUE
      [] v.k = "undef" -> FALSE

\* v || w
OrElse(v, w) == IF Truthy(v) THEN v ELSE w

\* a + b on numbers
Plus(a, b) == IF a.k = "nan" \/ b.k = "nan" THEN NaN ELSE Num(a.n + b.n)

\* a - b on numbers
Minus(a, b) == IF a.k = "nan" \/ b.k = "nan" THEN NaN ELSE Num(a.n - b.n)

\* a > b on numbers: false when either is NaN
Greater(a, b) == a.k = "num" /\ b.k = "num" /\ a.n > b.n

\* a <= b on numbers: false when either is NaN
LessEq(a, b) == a.k = "num" /\ b.k = "num" /\ a.n <= b.n

\* a >= b on numbers: false when either is NaN
GreaterEq(a, b) == a.k = "num" /\ b.k = "num" /\ a.n >= b.n

\* a === b: same type and same value, NaN equal to nothing
StrictEq(a, b) ==
    CASE a.k = "num" /\ b.k = "num" -> a.n = b.n
      [] a.k = "nan" \/ b.k = "nan" -> FALSE
      [] OTHER -> a = b

----------------------------------------------------------------------------
(* The state and the reducer *)

initialState ==
    [balance |-> Num(0),
     loan |-> Num(0),
     isActive |-> FALSE,
     lastBalance |-> Num(0),
     depositAmount |-> Empty,
     withdrawAmount |-> Empty,
     requestLoanAmount |-> Empty,
     payLoanAmount |-> Empty]

\* the fixed balance of a newly opened account
OpeningBalance == 500

\* openAccount that also clears the loan
openAccount_resetsLoan(s) ==
    [s EXCEPT !.isActive = TRUE,
              !.balance = Num(OpeningBalance),
              !.loan = Num(0),
              !.lastBalance = Num(0)]

\* openAccount that forgets to reset lastBalance
openAccount_keepsLastBalance(s) ==
    [s EXCEPT !.isActive = TRUE,
              !.balance = Num(OpeningBalance)]

openAccount(s) ==
    [s EXCEPT !.isActive = TRUE,
              !.balance = Num(OpeningBalance),
              !.lastBalance = Num(0)]

setDepositAmount(s, a) == [s EXCEPT !.depositAmount = a.amount]

\* setWithdrawAmount that takes the amount from the balance at once
setWithdrawAmount_appliesAtOnce(s, a) ==
    [s EXCEPT !.withdrawAmount = a.amount,
              !.balance = Minus(ToNumber(s.balance), ToNumber(OrElse(a.amount, Num(0))))]

setWithdrawAmount(s, a) == [s EXCEPT !.withdrawAmount = a.amount]

setRequestLoanAmount(s, a) == [s EXCEPT !.requestLoanAmount = a.amount]

setPayLoanAmount(s, a) == [s EXCEPT !.payLoanAmount = a.amount]

\* deposit that leaves the amount staged
deposit_keepsStagedAmount(s) ==
    [s EXCEPT !.balance = Plus(ToNumber(s.balance),
                               ToNumber(OrElse(s.depositAmount, Num(0))))]

deposit(s) ==
    [s EXCEPT !.balance = Plus(ToNumber(s.balance),
                               ToNumber(OrElse(s.depositAmount, Num(0)))),
              !.depositAmount = Empty]

\* withdraw that deactivates the account once nothing is left on it
withdraw_closesWhenEmpty(s) ==
    [s EXCEPT !.balance = Minus(ToNumber(s.balance),
                                ToNumber(OrElse(s.withdrawAmount, Num(0)))),
              !.withdrawAmount = Empty,
              !.isActive = Minus(ToNumber(s.balance),
                                 ToNumber(OrElse(s.withdrawAmount, Num(0)))) # Num(0)]

withdraw(s) ==
    [s EXCEPT !.balance = Minus(ToNumber(s.balance),
                                ToNumber(OrElse(s.withdrawAmount, Num(0)))),
              !.withdrawAmount = Empty]

\* requestLoan that registers the loan but does not add it to the balance
requestLoan_loanOnly(s) ==
    IF StrictEq(s.loan, Num(0))
    THEN [s EXCEPT !.loan = OrElse(ToNumber(s.requestLoanAmount), Num(0)),
                   !.requestLoanAmount = Empty]
    ELSE s

requestLoan(s) ==
    IF StrictEq(s.loan, Num(0))
    THEN [s EXCEPT !.loan = OrElse(ToNumber(s.requestLoanAmount), Num(0)),
                   !.balance = Plus(ToNumber(s.balance),
                                    ToNumber(OrElse(s.requestLoanAmount, Num(0)))),
                   !.requestLoanAmount = Empty]
    ELSE s

paymentAmount(s) == ToNumber(OrElse(s.payLoanAmount, Num(0)))

remainingLoan(s) == ToNumber(s.loan)

\* payLoan without the check against overpayment
payLoan_allowsOverpayment(s) ==
    IF /\ Greater(remainingLoan(s), Num(0))
       /\ Greater(paymentAmount(s), Num(0))
    THEN [s EXCEPT !.balance = Minus(ToNumber(s.balance), paymentAmount(s)),
                   !.loan = Minus(remainingLoan(s), paymentAmount(s)),
                   !.payLoanAmount = Empty]
    ELSE s

payLoan(s) ==
    IF /\ Greater(remainingLoan(s), Num(0))
       /\ Greater(paymentAmount(s), Num(0))
       /\ LessEq(paymentAmount(s), remainingLoan(s))
    THEN [s EXCEPT !.balance = Minus(ToNumber(s.balance), paymentAmount(s)),
                   !.loan = Minus(remainingLoan(s), paymentAmount(s)),
                   !.payLoanAmount = Empty]
    ELSE s

currentBalance(s) == ToNumber(s.balance)

currentLoan(s) == ToNumber(s.loan)

\* closeAccount that auto-pays only when the balance exceeds the loan
closeAccount_strictlyGreater(s) ==
    IF StrictEq(currentLoan(s), Num(0))
    THEN [s EXCEPT !.isActive = FALSE,
                   !.lastBalance = currentBalance(s),
                   !.balance = Num(0),
                   !.loan = Num(0)]
    ELSE IF Greater(currentBalance(s), currentLoan(s))
    THEN [s EXCEPT !.isActive = FALSE,
                   !.lastBalance = Minus(currentBalance(s), currentLoan(s)),
                   !.balance = Num(0),
                   !.loan = Num(0)]
    ELSE s

\* closeAccount whose auto-pay branch forgets to clear the loan
closeAccount_keepsLoan(s) ==
    IF StrictEq(currentLoan(s), Num(0))
    THEN [s EXCEPT !.isActive = FALSE,
                   !.lastBalance = currentBalance(s),
                   !.balance = Num(0),
                   !.loan = Num(0)]
    ELSE IF GreaterEq(currentBalance(s), currentLoan(s))
    THEN [s EXCEPT !.isActive = FALSE,
                   !.lastBalance = Minus(currentBalance(s), currentLoan(s)),
                   !.balance = Num(0)]
    ELSE s

closeAccount(s) ==
    IF StrictEq(currentLoan(s), Num(0))
    THEN [s EXCEPT !.isActive = FALSE,
                   !.lastBalance = currentBalance(s),
                   !.balance = Num(0),
                   !.loan = Num(0)]
    ELSE IF GreaterEq(currentBalance(s), currentLoan(s))
    THEN [s EXCEPT !.isActive = FALSE,
                   !.lastBalance = Minus(currentBalance(s), currentLoan(s)),
                   !.balance = Num(0),
                   !.loan = Num(0)]
    ELSE s

\* reducer whose inactive-account guard lets closeAccount through
reducer_guardSkipsClose(s, a) ==
    IF ~s.isActive /\ a.type \notin {"openAccount", "closeAccount"}
    THEN s
    ELSE CASE a.type = "openAccount" -> openAccount(s)
           [] a.type = "setDepositAmount" -> setDepositAmount(s, a)
           [] a.type = "setWithdrawAmount" -> setWithdrawAmount(s, a)
           [] a.type = "setRequestLoanAmount" -> setRequestLoanAmount(s, a)
           [] a.type = "setPayLoanAmount" -> setPayLoanAmount(s, a)
           [] a.type = "deposit" -> deposit(s)
           [] a.type = "withdraw" -> withdraw(s)
           [] a.type = "requestLoan" -> requestLoan(s)
           [] a.type = "payLoan" -> payLoan(s)
           [] a.type = "closeAccount" -> closeAccount(s)
           [] OTHER -> s

\* reducer whose inactive-account guard lets setDepositAmount through
reducer_guardSkipsSetters(s, a) ==
    IF ~s.isActive /\ a.type \notin {"openAccount", "setDepositAmount"}
    THEN s
    ELSE CASE a.type = "openAccount" -> openAccount(s)
           [] a.type = "setDepositAmount" -> setDepositAmount(s, a)
           [] a.type = "setWithdrawAmount" -> setWithdrawAmount(s, a)
           [] a.type = "setRequestLoanAmount" -> setRequestLoanAmount(s, a)
           [] a.type = "setPayLoanAmount" -> setPayLoanAmount(s, a)
           [] a.type = "deposit" -> deposit(s)
           [] a.type = "withdraw" -> withdraw(s)
           [] a.type = "requestLoan" -> requestLoan(s)
           [] a.type = "payLoan" -> payLoan(s)
           [] a.type = "closeAccount" -> closeAccount(s)
           [] OTHER -> s

reducer(s, a) ==
    IF ~s.isActive /\ a.type # "openAccount"
    THEN s
    ELSE CASE a.type = "openAccount" -> openAccount(s)
           [] a.type = "setDepositAmount" -> setDepositAmount(s, a)
           [] a.type = "setWithdrawAmount" -> setWithdrawAmount(s, a)
           [] a.type = "setRequestLoanAmount" -> setRequestLoanAmount(s, a)
           [] a.type = "setPayLoanAmount" -> setPayLoanAmount(s, a)
           [] a.type = "deposit" -> deposit(s)
           [] a.type = "withdraw" -> withdraw(s)
           [] a.type = "requestLoan" -> requestLoan(s)
           [] a.type = "payLoan" -> payLoan(s)
           [] a.type = "closeAccount" -> closeAccount(s)
           [] OTHER -> s

----------------------------------------------------------------------------
(* The actions a caller dispatches *)

\* the values a staging setter carries
Amounts == {Empty, Bad, Text(0 - AmountUnit), Text(AmountUnit), Text(2 * AmountUnit)}

\* an action without a payload, such as { type: 'deposit' }
Plain(t) == [type |-> t, amount |-> Undefined]

\* an action with an amount, such as { type: 'setDepositAmount', amount: '250' }
WithAmount(t, v) == [type |-> t, amount |-> v]

SetterTypes ==
    {"setDepositAmount", "setWithdrawAmount", "setRequestLoanAmount", "setPayLoanAmount"}

PlainTypes ==
    {"openAccount", "deposit", "withdraw", "requestLoan", "payLoan", "closeAccount",
     "unknown"}

Actions ==
    {Plain(t) : t \in PlainTypes} \cup {WithAmount(t, v) : t \in SetterTypes, v \in Amounts}

InBounds(s) ==
    s.balance.k = "num" => (s.balance.n <= MaxBalance /\ 0 - s.balance.n <= MaxBalance)

\* dispatch(a): the held state is replaced by reducer(state, a)
Dispatch(a) ==
    /\ InBounds(reducer(state, a))
    /\ state' = reducer(state, a)
    /\ actionType' = a.type
    /\ changed' = (reducer(state, a) # state)

OpenAccount == Dispatch(Plain("openAccount"))

SetDepositAmount == \E v \in Amounts : Dispatch(WithAmount("setDepositAmount", v))

SetWithdrawAmount == \E v \in Amounts : Dispatch(WithAmount("setWithdrawAmount", v))

SetRequestLoanAmount == \E v \in Amounts : Dispatch(WithAmount("setRequestLoanAmount", v))

SetPayLoanAmount == \E v \in Amounts : Dispatch(WithAmount("setPayLoanAmount", v))

Deposit == Dispatch(Plain("deposit"))

Withdraw == Dispatch(Plain("withdraw"))

RequestLoan == Dispatch(Plain("requestLoan"))

PayLoan == Dispatch(Plain("payLoan"))

CloseAccount == Dispatch(Plain("closeAccount"))

UnknownAction == Dispatch(Plain("unknown"))

Init ==
    /\ state = initialState
    /\ actionType = "none"
    /\ changed = FALSE

Next ==
    \/ OpenAccount
    \/ SetDepositAmount
    \/ SetWithdrawAmount
    \/ SetRequestLoanAmount
    \/ SetPayLoanAmount
    \/ Deposit
    \/ Withdraw
    \/ RequestLoan
    \/ PayLoan
    \/ CloseAccount
    \/ UnknownAction

Spec == Init /\ [][Next]_vars

----------------------------------------------------------------------------
(* Properties *)

\* the amount a staged value stands for: the number of a numeric text, and
\* zero for empty or non-numeric text
AmountOf(v) == IF v.k \in {"num", "text"} THEN v.n ELSE 0

\* C1: while the account is inactive, every action other than openAccount
\* (the operations, the four staging setters with any amount, an unknown
\* type) returns the state it was given, every field unchanged.
C1_InactiveIdentity ==
    \A a \in Actions :
        (~state.isActive /\ a.type # "openAccount") => reducer(state, a) = state

\* a setter and an operation were dispatched on a closed account that still
\* has an amount staged
C1_Witness ==
    /\ ~state.isActive
    /\ actionType = "setDepositAmount"
    /\ ~changed
    /\ state.depositAmount = Text(AmountUnit)
    /\ state.withdrawAmount = Text(2 * AmountUnit)

\* C2: openAccount from any state, active or not, yields isActive = true,
\* balance = 500 and lastBalance = 0.
C2_OpenAccountUnconditional ==
    LET t == reducer(state, Plain("openAccount"))
    IN  t.isActive = TRUE /\ t.balance = Num(500) /\ t.lastBalance = Num(0)

\* openAccount was dispatched on an active account that had a loan, and
\* replaced its balance
C2_Witness ==
    /\ actionType = "openAccount"
    /\ changed
    /\ state.loan = Num(2 * AmountUnit)

\* C3: an inactive account has balance 0 and loan 0.
C3_InactiveIsEmpty ==
    ~state.isActive => (state.balance = Num(0) /\ state.loan = Num(0))

\* an account was closed by closeAccount with money left on it
C3_Witness ==
    /\ ~state.isActive
    /\ actionType = "closeAccount"
    /\ changed
    /\ state.lastBalance = Num(OpeningBalance - AmountUnit)

\* C4: loan >= 0 in every reachable state, whatever numeric values the
\* staging setters carry.
C4_LoanNonNegative == state.loan.k = "num" /\ state.loan.n >= 0

\* C5: requestLoan on an active account: with loan = 0, loan' is the staged
\* requestLoanAmount and balance' = balance + that amount; with loan # 0
\* the state is returned unchanged.
C5_RequestLoan ==
    [][(actionType' = "requestLoan" /\ state.isActive) =>
         IF state.loan = Num(0)
         THEN /\ state'.loan = Num(AmountOf(state.requestLoanAmount))
              /\ state'.balance =
                     Plus(state.balance, Num(AmountOf(state.requestLoanAmount)))
         ELSE state' = state]_vars

\* C5, for staged text that is empty or numeric only
C5_RequestLoanNumericText ==
    [][(/\ actionType' = "requestLoan"
        /\ state.isActive
        /\ state.requestLoanAmount.k # "bad") =>
         IF state.loan = Num(0)
         THEN /\ state'.loan = Num(AmountOf(state.requestLoanAmount))
              /\ state'.balance =
                     Plus(state.balance, Num(AmountOf(state.requestLoanAmount)))
         ELSE state' = state]_vars

\* C6: payLoan on an active account with loan > 0 pays the loan off in one
\* step: balance' = balance - loan and loan' = 0.
C6_PayLoanFullPayoff ==
    [][(/\ actionType' = "payLoan"
        /\ state.isActive
        /\ state.loan.n > 0) =>
         (state'.balance = Minus(state.balance, state.loan) /\ state'.loan = Num(0))]_vars

C9_CloseOnlyWhenEmpty ==
    [][(/\ actionType' = "closeAccount"
        /\ state.isActive
        /\ ~(state.loan = Num(0) /\ state.balance = Num(0))) =>
         state' = state]_vars

\* C10: after a successful closeAccount every field other than lastBalance
\* has its value of initialState.
C10_CloseResetsToInitial ==
    [][(/\ actionType' = "closeAccount"
        /\ state.isActive
        /\ ~state'.isActive) =>
         [state' EXCEPT !.lastBalance = initialState.lastBalance] = initialState]_vars

\* C11 as stated: a step that takes the balance from >= 0 to < 0 is always
\* a payLoan step.
C11_NegativeOnlyByPayLoan ==
    [][(/\ state.balance.k = "num" /\ state.balance.n >= 0
        /\ state'.balance.k = "num" /\ state'.balance.n < 0) =>
         actionType' = "payLoan"]_vars

\* C11 as amended: a step that takes the balance from >= 0 to < 0 is a
\* withdraw step, a payLoan step, or a deposit or requestLoan step whose
\* staged amount is negative; openAccount, closeAccount, the staging
\* setters and unknown actions never make the balance negative.
C11_NegativeOnlyByMoneyOperations ==
    [][(/\ state.balance.k = "num" /\ state.balance.n >= 0
        /\ state'.balance.k = "num" /\ state'.balance.n < 0) =>
         \/ actionType' \in {"withdraw", "payLoan"}
         \/ (actionType' = "deposit" /\ AmountOf(state.depositAmount) < 0)
         \/ (actionType' = "requestLoan" /\ AmountOf(state.requestLoanAmount) < 0)]_vars

\* a loan payment (of AmountUnit or 2 * AmountUnit, from a balance of
\* AmountUnit or 0) has just made the balance negative
C11_Witness ==
    /\ actionType = "payLoan"
    /\ changed
    /\ state.balance = Num(0 - AmountUnit)

\* C12: a step that activates the account is an openAccount step, a step
\* that deactivates it is a closeAccount step, and no other action changes
\* isActive.
C12_MacroStateTransitions ==
    [][(state'.isActive # state.isActive) =>
         IF state'.isActive
         THEN actionType' = "openAccount"
         ELSE actionType' = "closeAccount"]_vars

\* openAccount activated or reset an account that has no loan and an amount
\* staged during an earlier active period
C12_Witness ==
    /\ actionType = "openAccount"
    /\ changed
    /\ state.isActive
    /\ state.loan = Num(0)
    /\ state.depositAmount = Text(AmountUnit)

\* the deposits of the lifecycle scenario: nothing, AmountUnit, 2 * AmountUnit
ScenarioDeposits == {Empty, Text(AmountUnit), Text(2 * AmountUnit)}

\* the loans of the lifecycle scenario
ScenarioLoans == {Text(AmountUnit), Text(2 * AmountUnit)}

\* the four account fields of a state
Account(s) == <<s.balance, s.loan, s.isActive, s.lastBalance>>

C14_CloseIdempotent ==
    reducer(reducer(state, Plain("closeAccount")), Plain("closeAccount"))
        = reducer(state, Plain("closeAccount"))

\* closeAccount was dispatched again on an account that it had closed and
\* that remembers a last balance
C14_Witness ==
    /\ actionType = "closeAccount"
    /\ ~changed
    /\ ~state.isActive
    /\ state.lastBalance = Num(OpeningBalance)

\* the staging field an operation reads
StagedFor(s, t) ==
    CASE t = "deposit" -> s.depositAmount
      [] t = "withdraw" -> s.withdrawAmount
      [] t = "requestLoan" -> s.requestLoanAmount
      [] t = "payLoan" -> s.payLoanAmount

\* C15: on an active account, deposit, withdraw, requestLoan and payLoan
\* dispatched with their staging field empty or holding non-numeric text
\* leave balance and loan at their previous values.
C15_InvalidTextIsZero ==
    [][(/\ actionType' \in {"deposit", "withdraw", "requestLoan", "payLoan"}
        /\ state.isActive
        /\ StagedFor(state, actionType') \in {Empty, Bad}) =>
         (state'.balance = state.balance /\ state'.loan = state.loan)]_vars

\* C15, for an empty staging field only
C15_EmptyTextIsZero ==
    [][(/\ actionType' \in {"deposit", "withdraw", "requestLoan", "payLoan"}
        /\ state.isActive
        /\ StagedFor(state, actionType') = Empty) =>
         (state'.balance = state.balance /\ state'.loan = state.loan)]_vars

\* C16: withdraw on an active account with staged withdrawAmount = a yields
\* balance' = balance - a, also below zero, and leaves loan, isActive and
\* lastBalance unchanged.
C16_WithdrawNoFloor ==
    [][(actionType' = "withdraw" /\ state.isActive) =>
         /\ state'.balance = Minus(state.balance, Num(AmountOf(state.withdrawAmount)))
         /\ state'.loan = state.loan
         /\ state'.isActive = state.isActive
         /\ state'.lastBalance = state.lastBalance]_vars

\* C16, for staged text that is empty or numeric only
C16_WithdrawNoFloorNumericText ==
    [][(/\ actionType' = "withdraw"
        /\ state.isActive
        /\ state.withdrawAmount.k # "bad") =>
         /\ state'.balance = Minus(state.balance, Num(AmountOf(state.withdrawAmount)))
         /\ state'.loan = state.loan
         /\ state'.isActive = state.isActive
         /\ state'.lastBalance = state.lastBalance]_vars

\* C17: openAccount changes only isActive, balance and lastBalance: loan and
\* the four staging fields keep their values, also on an active account
\* with a loan.
C17_OpenAccountFrame ==
    LET t == reducer(state, Plain("openAccount"))
    IN  t = [state EXCEPT !.isActive = t.isActive,
                          !.balance = t.balance,
                          !.lastBalance = t.lastBalance]

\* openAccount reset the balance of an active account that keeps its loan
\* and a staged amount
C17_Witness ==
    /\ actionType = "openAccount"
    /\ changed
    /\ state.loan = Num(AmountUnit)
    /\ state.payLoanAmount = Text(AmountUnit)

\* the operation named t applied once more to the state s
Again(s, t) == reducer(s, Plain(t))

\* C18: after a deposit, a withdraw, a successful requestLoan (one made with
\* no loan outstanding) or a successful payLoan (one that changed the
\* state), the staging field of that operation is empty, and the same
\* operation dispatched again leaves balance and loan unchanged.
C18_StagedAmountConsumed ==
    [][(/\ state.isActive
        /\ \/ actionType' \in {"deposit", "withdraw"}
           \/ (actionType' = "requestLoan" /\ state.loan = Num(0))
           \/ (actionType' = "payLoan" /\ state' # state)) =>
         /\ StagedFor(state', actionType') = Empty
         /\ Again(state', actionType').balance = state'.balance
         /\ Again(state', actionType').loan = state'.loan]_vars

\* a deposit of AmountUnit was made and its staging field is empty
C18_Witness ==
    /\ actionType = "deposit"
    /\ changed
    /\ state.balance = Num(OpeningBalance + AmountUnit)
    /\ state.depositAmount = Empty

\* balance - loan
NetPosition(s) == Minus(s.balance, s.loan)

\* C19: on an active account requestLoan and payLoan leave balance - loan
\* unchanged, whether they succeed or not.
C19_NetPositionConserved ==
    [][(actionType' \in {"requestLoan", "payLoan"} /\ state.isActive) =>
         NetPosition(state') = NetPosition(state)]_vars

\* C19, for staged text that is empty or numeric only
C19_NetPositionConservedNumericText ==
    [][(/\ actionType' \in {"requestLoan", "payLoan"}
        /\ state.isActive
        /\ StagedFor(state, actionType').k # "bad") =>
         NetPosition(state') = NetPosition(state)]_vars

\* C20: a step that increases loan is a requestLoan step taken with
\* loan = 0; while loan # 0 no action increases loan.
C20_OneLoanAtATime ==
    [][(state'.loan.n > state.loan.n) =>
         (actionType' = "requestLoan" /\ state.loan = Num(0))]_vars

\* C20, for steps taken with a loan that is not negative
C20_OneLoanAtATimeNonNegative ==
    [][(state'.loan.n > state.loan.n /\ state.loan.n >= 0) =>
         (actionType' = "requestLoan" /\ state.loan = Num(0))]_vars

====
